---- MODULE Spec2Model ----
(***************************************************************************)
(* A model of the cdparanoia wrapper crate (src/cdparanoia/src/lib.rs):    *)
(* the error taxonomy (Error, ErrorCode), the device handle (CdromDrive)   *)
(* and the extraction session (CdromParanoia) with their ownership and     *)
(* release discipline.                                                     *)
(*                                                                         *)
(* Fixed-width integers.  TLC's integers are 32 bits wide, which is the    *)
(* width of c_int.  A 32-bit value (c_int, i32, u32) is written as the     *)
(* signed reading of its bit pattern: the u32 value 2^31 is IntMin and     *)
(* the u32 value 2^32-1 is -1.  A 64-bit value (c_long on the LP64 targets *)
(* the engine is built for, i64, u64) is a record [hi, lo] of its two      *)
(* 32-bit words written the same way: -1 is [hi |-> -1, lo |-> -1], 2^32   *)
(* is [hi |-> 1, lo |-> 0] and the u64 value 2^63 is [hi |-> IntMin,       *)
(* lo |-> 0].                                                              *)
(***************************************************************************)
EXTENDS Integers, Sequences, FiniteSets, TLC

VARIABLES
    owner,    \* who holds the CdromDrive value
    sess,     \* the CdromParanoia value
    opened,   \* engine: the drive's opened flag
    cursor,   \* engine: the session's sector cursor
    seekAt,   \* sector of the last successful seek of the session, -1 if none
    reads,    \* reads completed since the last successful seek (or init)
    relLog,   \* the engine's release calls, in order
    last,     \* the last wrapper call and what it returned
    cls       \* the status value under classification

vars == <<owner, sess, opened, cursor, seekAt, reads, relLog, last, cls>>

----------------------------------------------------------------------------
(* Bounds of the model *)

\* last sector of the disc's single track (sectors 0..DiscLast)
DiscLast == 9

\* reads allowed after one seek (one more than the track holds, so that the
\* read past the last sector happens)
MaxReads == 11

----------------------------------------------------------------------------
(* Integer widths *)

IntMax == 2147483647
IntMin == -IntMax - 1

\* c_int -> c_long, a value-preserving widening
CLong(x) == [hi |-> IF x < 0 THEN -1 ELSE 0, lo |-> x]

\* `raw as c_int` on a c_long: the low 32 bits
AsCInt(l) == l.lo

\* u32::try_into::<c_int>(): fails above i32::MAX
U32FitsCInt(w) == w >= 0

\* u64::try_into::<c_long>(): fails above i64::MAX
U64FitsCLong(l) == l.hi >= 0

\* the value of a c_long that fits 32 bits
FitsInt(l) == l = CLong(l.lo)

----------------------------------------------------------------------------
(* Error and ErrorCode *)

OkUnit == [kind |-> "Ok", val |-> 0]
Ok(v) == [kind |-> "Ok", val |-> v]
Err(raw) == [kind |-> "Err", val |-> raw]
Panic == [kind |-> "Panic", val |-> 0]

Error_from_raw(raw) ==
    IF raw >= 0 THEN OkUnit ELSE Err(raw)

Error_from_raw_long_signAfterCast(raw) ==
    IF AsCInt(raw) >= 0 THEN OkUnit ELSE Err(AsCInt(raw))

Error_from_raw_long(raw) ==
    IF raw.hi >= 0 THEN OkUnit ELSE Err(AsCInt(raw))

Error_as_raw(e) == e.val

wrapping_abs(x) ==
    IF x = IntMin THEN IntMin ELSE IF x < 0 THEN -x ELSE x

TableMagnitudes ==
    {1, 2, 3, 4, 5, 6, 7, 8, 9, 100, 102, 300, 400, 401, 403, 404, 405}

Table(m) ==
    CASE m = 1 -> "NoReadMode"
      [] m = 2 -> "NoTocLeadout"
      [] m = 3 -> "IllegalTrackCount"
      [] m = 4 -> "NoTocHeader"
      [] m = 5 -> "NoTocEntry"
      [] m = 6 -> "CannotReadAnyData"
      [] m = 7 -> "UnknownReadError"
      [] m = 8 -> "NoCdromModel"
      [] m = 9 -> "IllegalToc"
      [] m = 100 -> "InterfaceNotSupported"
      [] m = 102 -> "PermissionDenied"
      [] m = 300 -> "KernelMemoryError"
      [] m = 400 -> "DeviceNotOpen"
      [] m = 401 -> "InvalidTrackNumber"
      [] m = 403 -> "NoAudioTracks"
      [] m = 404 -> "NoMediumPresent"
      [] m = 405 -> "OptionNotSupported"
      [] OTHER -> "None"

ErrorCode_from_raw_signed(raw) == Table(raw)

ErrorCode_from_raw(raw) == Table(wrapping_abs(raw))

Error_code(e) == ErrorCode_from_raw(e.val)

\* What a caller sees of a Result<_, Error>: success, a named condition, or
\* the unknown condition carrying Error::as_raw().
Condition(r) ==
    IF r.kind = "Ok" THEN [cond |-> "Success", raw |-> 0]
    ELSE IF Error_code(r) = "None" THEN [cond |-> "Unknown", raw |-> Error_as_raw(r)]
    ELSE [cond |-> Error_code(r), raw |-> Error_as_raw(r)]

----------------------------------------------------------------------------
(* Classification of raw engine statuses: the inputs and the two entry      *)
(* points, Error::from_raw (c_int) and Error::from_raw_long (c_long),       *)
(* followed by Error::code, and the table lookup on its own.                *)

Pending == [cond |-> "-", raw |-> 0]

ClsIdle ==
    [width |-> "none", raw |-> CLong(0), done |-> FALSE, out |-> Pending,
     looked |-> FALSE, lookup |-> "-"]

\* c_int statuses: zero, the table's magnitudes with both signs, magnitudes
\* next to the table's, and the ends of the range
IntInputs ==
    {0} \cup TableMagnitudes \cup {-m : m \in TableMagnitudes}
        \cup {10, -10, 99, -99, 101, -101, 402, -402, 406, -406, 1000, -1000,
              65536 + 1, -65536 - 1, IntMax, -IntMax, IntMin}

\* c_long statuses: the c_int statuses widened, and values outside the
\* 32-bit range, among them i64::MIN, -2^32, -2^32-1 and -2^32-400
LongInputs ==
    {CLong(x) : x \in IntInputs}
        \cup {[hi |-> h, lo |-> l] :
                h \in {1, IntMax, -2, IntMin, -1, 0},
                l \in {0, 1, -1, 400, -400, 10, -10, IntMin, IntMax}}

ClassifyInt ==
    /\ cls.width = "int"
    /\ ~cls.done
    /\ cls' = [cls EXCEPT !.done = TRUE,
                          !.out = Condition(Error_from_raw(cls.raw.lo))]
    /\ UNCHANGED <<owner, sess, opened, cursor, seekAt, reads, relLog, last>>

ClassifyLong ==
    /\ cls.width = "long"
    /\ ~cls.done
    /\ cls' = [cls EXCEPT !.done = TRUE,
                          !.out = Condition(Error_from_raw_long(cls.raw))]
    /\ UNCHANGED <<owner, sess, opened, cursor, seekAt, reads, relLog, last>>

\* ErrorCode::from_raw is public and takes any c_int
Lookup ==
    /\ cls.width = "int"
    /\ ~cls.looked
    /\ cls' = [cls EXCEPT !.looked = TRUE,
                          !.lookup = ErrorCode_from_raw(cls.raw.lo)]
    /\ UNCHANGED <<owner, sess, opened, cursor, seekAt, reads, relLog, last>>

----------------------------------------------------------------------------
(* The engine behind the FFI boundary: one drive holding a disc with one    *)
(* audio track over sectors 0..DiscLast.  The engine is not part of the     *)
(* crate; what it answers is taken from its contract.                       *)

NumTracks == 1
DiscFirst == 0
CD_FRAMEWORDS == 1176

NoArg == [hi |-> 0, lo |-> 0]
W32(w) == [hi |-> 0, lo |-> w]

ValidTrack(t) == t >= 1 /\ t <= NumTracks

\* the status or value a TOC query returns
EngineQuery(q, v) ==
    IF ~opened THEN -400
    ELSE CASE q = "tracks" -> NumTracks
           [] q = "disc_first_sector" -> DiscFirst
           [] q = "track_first_sector" -> IF ValidTrack(v) THEN DiscFirst ELSE -401
           [] q = "track_last_sector" -> IF ValidTrack(v) THEN DiscLast ELSE -401
           [] q = "sector_get_track" ->
                IF v >= DiscFirst /\ v <= DiscLast THEN 1 ELSE -401
           [] q = "track_channels" -> IF ValidTrack(v) THEN 2 ELSE -401
           [] q = "track_audiop" -> IF ValidTrack(v) THEN 1 ELSE -401
           [] q = "track_copyp" -> IF ValidTrack(v) THEN 0 ELSE -401
           [] q = "track_preemp" -> IF ValidTrack(v) THEN 0 ELSE -401

\* statuses cdda_open may fail with
OpenFailures == {-102, -404}

\* statuses cdda_speed_set may answer on an open drive
SpeedAnswers == {0, -405}

\* statuses paranoia_seek may reject a position with
SeekRejects == {-1, -17}

\* the sector a seek asks for, when the engine accepts it
SeekBase(origin) ==
    CASE origin = "Start" -> DiscFirst
      [] origin = "End" -> DiscLast
      [] origin = "Current" -> cursor

SeekAccepted(origin, off) ==
    /\ opened
    /\ FitsInt(off)
    /\ off.lo >= DiscFirst - SeekBase(origin)
    /\ off.lo <= DiscLast - SeekBase(origin)

----------------------------------------------------------------------------
(* The inputs a caller passes *)

DiscoveryFns == {"find_a_cdrom", "identify", "identify_scsi", "identify_cooked"}

\* track numbers (u32): 0, the track, one past it, and 2^31
TrackInputs == {0, 1, 2, IntMin}

\* sectors (u64): first, last, one past the last, and 2^63
SectorInputs ==
    {W32(DiscFirst), W32(DiscLast), W32(DiscLast + 1), [hi |-> IntMin, lo |-> 0]}

TrackQueries ==
    {"track_first_sector", "track_last_sector", "track_channels",
     "track_audiop", "track_copyp", "track_preemp"}

LongQueries ==
    {"disc_first_sector", "track_first_sector", "track_last_sector", "tracks"}

FlagQueries == {"track_audiop", "track_copyp", "track_preemp"}

Queries ==
    TrackQueries \cup {"disc_first_sector", "tracks", "sector_get_track"}

QueryArgs(q) ==
    IF q \in TrackQueries THEN {W32(w) : w \in TrackInputs}
    ELSE IF q = "sector_get_track" THEN SectorInputs
    ELSE {NoArg}

\* SeekFrom values: Start(u64), End(i64), Current(i64)
SeekInputs ==
    {[origin |-> "Start", off |-> o] :
        o \in {W32(DiscFirst), W32(DiscLast), W32(DiscLast + 1),
               [hi |-> 1, lo |-> 0], [hi |-> IntMin, lo |-> 0],
               [hi |-> -1, lo |-> -1]}}
    \cup {[origin |-> "End", off |-> o] :
        o \in {CLong(0), CLong(-DiscLast), CLong(1), CLong(-DiscLast - 1)}}
    \cup {[origin |-> "Current", off |-> o] :
        o \in {CLong(0), CLong(1), CLong(-1), [hi |-> IntMin, lo |-> 0]}}

\* retry budgets (u32): none, the default, i32::MAX, 2^31 and u32::MAX
RetryInputs == {0, 20, IntMax, IntMin, -1}

----------------------------------------------------------------------------
(* CdromDrive *)

Frame == [kind |-> "Frame", val |-> CD_FRAMEWORDS]
None == [kind |-> "None", val |-> 0]
Some == [kind |-> "Some", val |-> 0]

Call(op, path, arg, res) ==
    [op |-> op, path |-> path, opened |-> opened, cur |-> cursor,
     arg |-> arg, res |-> res]

\* CdromParanoia::drive: a shared borrow of the session's drive
CdromParanoia_drive == owner = "session" /\ sess = "live"

\* a &CdromDrive is at hand: the caller's own value, or the session's borrow
HandleAt(path) ==
    \/ path = "direct" /\ owner = "caller"
    \/ path = "accessor" /\ CdromParanoia_drive

\* CdromDrive::from_raw on what a discovery function returns
Discover(fn, found) ==
    /\ owner = "undiscovered"
    /\ owner' = IF found THEN "caller" ELSE "absent"
    /\ last' = Call(fn, "-", NoArg, IF found THEN Some ELSE None)
    /\ UNCHANGED <<sess, opened, cursor, seekAt, reads, relLog, cls>>

set_verbosity(path) ==
    /\ HandleAt(path)
    /\ last' = Call("set_verbosity", path, NoArg, OkUnit)
    /\ UNCHANGED <<owner, sess, opened, cursor, seekAt, reads, relLog, cls>>

open(path, rc) ==
    /\ HandleAt(path)
    /\ rc \in (IF opened THEN {0} ELSE {0} \cup OpenFailures)
    /\ opened' = (opened \/ rc = 0)
    /\ last' = Call("open", path, NoArg, Error_from_raw(rc))
    /\ UNCHANGED <<owner, sess, cursor, seekAt, reads, relLog, cls>>

set_speed(path, speed, rc) ==
    /\ HandleAt(path)
    /\ rc \in (IF opened THEN SpeedAnswers ELSE {-400})
    /\ last' = Call("set_speed", path, W32(speed), Error_from_raw(rc))
    /\ UNCHANGED <<owner, sess, opened, cursor, seekAt, reads, relLog, cls>>

\* whether the argument's try_into().unwrap() passes
QueryArgFits(q, a) ==
    IF q \in TrackQueries THEN U32FitsCInt(a.lo)
    ELSE IF q = "sector_get_track" THEN U64FitsCLong(a)
    ELSE TRUE

\* what the query method returns for the engine's answer rc
QueryResult(q, rc) ==
    LET e == IF q \in LongQueries THEN Error_from_raw_long(CLong(rc))
             ELSE Error_from_raw(rc)
    IN  IF e.kind = "Err" THEN e
        ELSE IF q \in FlagQueries THEN Ok(IF rc # 0 THEN 1 ELSE 0)
        ELSE Ok(rc)

Query(path, q, a) ==
    /\ HandleAt(path)
    /\ a \in QueryArgs(q)
    /\ last' = Call(q, path, a,
                    IF ~QueryArgFits(q, a) THEN Panic
                    ELSE QueryResult(q, EngineQuery(q, IF FitsInt(a) THEN a.lo ELSE IntMax)))
    /\ UNCHANGED <<owner, sess, opened, cursor, seekAt, reads, relLog, cls>>

\* messages / errors: CddaString::from_raw on the engine's buffer
Drain(path, which, pending) ==
    /\ HandleAt(path)
    /\ last' = Call(which, path, NoArg, IF pending THEN Some ELSE None)
    /\ UNCHANGED <<owner, sess, opened, cursor, seekAt, reads, relLog, cls>>

\* impl Drop for CdromDrive
CdromDrive_drop(log) == Append(log, "cdda_close")

DropDrive_borrowed ==
    /\ owner = "caller" \/ CdromParanoia_drive
    /\ relLog' = CdromDrive_drop(relLog)
    /\ owner' = IF owner = "caller" THEN "released" ELSE owner
    /\ opened' = FALSE
    /\ last' = Call("drop_drive", "direct", NoArg, OkUnit)
    /\ UNCHANGED <<sess, cursor, seekAt, reads, cls>>

\* the caller's CdromDrive goes out of scope
DropDrive ==
    /\ owner = "caller"
    /\ relLog' = CdromDrive_drop(relLog)
    /\ owner' = "released"
    /\ opened' = FALSE
    /\ last' = Call("drop_drive", "direct", NoArg, OkUnit)
    /\ UNCHANGED <<sess, cursor, seekAt, reads, cls>>

\* CdromDrive::into_raw: the value is forgotten, the caller keeps the pointer
DriveIntoRaw ==
    /\ owner = "caller"
    /\ owner' = "raw"
    /\ last' = Call("drive_into_raw", "direct", NoArg, OkUnit)
    /\ UNCHANGED <<sess, opened, cursor, seekAt, reads, relLog, cls>>

----------------------------------------------------------------------------
(* CdromParanoia *)

\* CdromParanoia::init: paranoia_init, then from_raw, whose
\* NonNull::new(raw).unwrap() panics on a null session; the drive has been
\* moved into the call, so the unwinding drops it.
init(null) ==
    /\ owner = "caller"
    /\ IF null
       THEN /\ owner' = "released"
            /\ relLog' = CdromDrive_drop(relLog)
            /\ opened' = FALSE
            /\ last' = Call("init", "direct", NoArg, Panic)
            /\ UNCHANGED <<sess, cursor, seekAt, reads>>
       ELSE /\ owner' = "session"
            /\ sess' = "live"
            /\ cursor' = DiscFirst
            /\ seekAt' = -1
            /\ reads' = 0
            /\ last' = Call("init", "direct", NoArg, OkUnit)
            /\ UNCHANGED <<opened, relLog>>
    /\ UNCHANGED cls

set_mode(mode) ==
    /\ sess = "live"
    /\ last' = Call("set_mode", "session", W32(mode), OkUnit)
    /\ UNCHANGED <<owner, sess, opened, cursor, seekAt, reads, relLog, cls>>

set_overlap(overlap) ==
    /\ sess = "live"
    /\ last' = Call("set_overlap", "session", overlap, OkUnit)
    /\ UNCHANGED <<owner, sess, opened, cursor, seekAt, reads, relLog, cls>>

\* whether the offset's try_into().unwrap() passes
SeekArgFits(pos) ==
    IF pos.origin = "Start" THEN U64FitsCLong(pos.off) ELSE TRUE

seek(pos, rc) ==
    /\ sess = "live"
    /\ pos \in SeekInputs
    /\ IF ~SeekArgFits(pos)
       THEN /\ rc = 0
            /\ last' = Call("seek", "session", pos.off, Panic)
            /\ UNCHANGED <<cursor, seekAt, reads>>
       ELSE IF SeekAccepted(pos.origin, pos.off)
       THEN /\ rc = SeekBase(pos.origin) + pos.off.lo
            /\ cursor' = rc
            /\ seekAt' = rc
            /\ reads' = 0
            /\ last' = Call("seek", "session", pos.off,
                            LET e == Error_from_raw_long(CLong(rc))
                            IN  IF e.kind = "Err" THEN e ELSE Ok(rc))
       ELSE /\ rc \in (IF opened THEN SeekRejects ELSE {-400})
            /\ last' = Call("seek", "session", pos.off, Error_from_raw_long(CLong(rc)))
            /\ UNCHANGED <<cursor, seekAt, reads>>
    /\ UNCHANGED <<owner, sess, opened, relLog, cls>>

\* the engine hands back a frame and moves the cursor on by one sector; the
\* method turns the pointer into a reference to CD_FRAMEWORDS samples
ReadFrame(op, arg) ==
    /\ cursor' = cursor + 1
    /\ reads' = reads + 1
    /\ last' = Call(op, "session", arg, Frame)
    /\ UNCHANGED <<owner, sess, opened, seekAt, relLog, cls>>

read_boundary ==
    /\ sess = "live"
    /\ reads < MaxReads
    /\ IF cursor > DiscLast
       THEN /\ last' = Call("read", "session", NoArg, Err(-1))
            /\ UNCHANGED <<owner, sess, opened, cursor, seekAt, reads, relLog, cls>>
       ELSE ReadFrame("read", NoArg)

read ==
    /\ sess = "live"
    /\ reads < MaxReads
    /\ ReadFrame("read", NoArg)

read_limited(max_retries) ==
    /\ sess = "live"
    /\ reads < MaxReads
    /\ IF ~U32FitsCInt(max_retries)
       THEN /\ last' = Call("read_limited", "session", W32(max_retries), Panic)
            /\ UNCHANGED <<owner, sess, opened, cursor, seekAt, reads, relLog, cls>>
       ELSE ReadFrame("read_limited", W32(max_retries))

\* impl Drop for CdromParanoia, then the drop of its field `drive`
CdromParanoia_drop(log) == CdromDrive_drop(Append(log, "paranoia_free"))

DropSession ==
    /\ sess = "live"
    /\ relLog' = CdromParanoia_drop(relLog)
    /\ sess' = "freed"
    /\ owner' = "released"
    /\ opened' = FALSE
    /\ cursor' = 0
    /\ seekAt' = -1
    /\ reads' = 0
    /\ last' = Call("drop_session", "session", NoArg, OkUnit)
    /\ UNCHANGED cls

into_raw_dropping ==
    /\ sess = "live"
    /\ relLog' = CdromParanoia_drop(relLog)
    /\ sess' = "freed"
    /\ owner' = "caller"
    /\ cursor' = 0
    /\ seekAt' = -1
    /\ reads' = 0
    /\ last' = Call("into_raw", "session", NoArg, OkUnit)
    /\ UNCHANGED <<opened, cls>>

\* CdromParanoia::into_raw: the session is forgotten, its drive rebuilt from
\* the same pointer and handed back with the session's raw pointer
into_raw ==
    /\ sess = "live"
    /\ sess' = "forgotten"
    /\ owner' = "caller"
    /\ cursor' = 0
    /\ seekAt' = -1
    /\ reads' = 0
    /\ last' = Call("into_raw", "session", NoArg, OkUnit)
    /\ UNCHANGED <<opened, relLog, cls>>

----------------------------------------------------------------------------
(* Specifications *)

Paths == {"direct", "accessor"}

NoCall ==
    [op |-> "-", path |-> "-", opened |-> FALSE, cur |-> 0, arg |-> NoArg,
     res |-> [kind |-> "-", val |-> 0]]

InitDrive ==
    /\ owner = "undiscovered"
    /\ sess = "none"
    /\ opened = FALSE
    /\ cursor = 0
    /\ seekAt = -1
    /\ reads = 0
    /\ relLog = <<>>
    /\ last = NoCall

Init ==
    /\ InitDrive
    /\ cls = ClsIdle

Next ==
    \/ \E fn \in DiscoveryFns, found \in BOOLEAN : Discover(fn, found)
    \/ \E path \in Paths : set_verbosity(path)
    \/ \E path \in Paths, rc \in {0} \cup OpenFailures : open(path, rc)
    \/ \E path \in Paths, speed \in {4, -1}, rc \in SpeedAnswers \cup {-400} :
            set_speed(path, speed, rc)
    \/ \E path \in Paths, q \in Queries : \E a \in QueryArgs(q) : Query(path, q, a)
    \/ \E path \in Paths, which \in {"messages", "errors"}, pending \in BOOLEAN :
            Drain(path, which, pending)
    \/ DropDrive
    \/ DriveIntoRaw
    \/ \E null \in BOOLEAN : init(null)
    \/ \E mode \in {0, 255} : set_mode(mode)
    \/ \E overlap \in {CLong(-1), CLong(0), CLong(588)} : set_overlap(overlap)
    \/ \E pos \in SeekInputs,
          rc \in DiscFirst..DiscLast \cup SeekRejects \cup {-400} : seek(pos, rc)
    \/ read
    \/ \E max_retries \in RetryInputs : read_limited(max_retries)
    \/ DropSession
    \/ into_raw

Spec == Init /\ [][Next]_vars

\* the classification of one status
InitErr ==
    /\ InitDrive
    /\ cls \in {[ClsIdle EXCEPT !.width = "int", !.raw = CLong(x)] : x \in IntInputs}
               \cup {[ClsIdle EXCEPT !.width = "long", !.raw = l] : l \in LongInputs}

NextErr ==
    \/ ClassifyInt
    \/ ClassifyLong
    \/ Lookup

SpecErr == InitErr /\ [][NextErr]_vars

----------------------------------------------------------------------------
(* Properties *)

Count(log, x) == Cardinality({i \in DOMAIN log : log[i] = x})

ReadOps == {"read", "read_limited"}

\* C1: a discovered handle is closed (cdda_close) at most once at any time,
\* not at all while the caller or a session holds it, and exactly once when
\* it has been dropped: directly, by an init that panicked, as part of its
\* session, or after the session's into_raw gave it back.  A dropped session
\* frees its engine resources (paranoia_free) exactly once, before the close;
\* nothing is released after the close.
ClosedExactlyOnce ==
    /\ Count(relLog, "cdda_close") <= 1
    /\ Count(relLog, "paranoia_free") <= 1
    /\ owner \in {"caller", "session", "raw"} => Count(relLog, "cdda_close") = 0
    /\ owner = "released" =>
          /\ Count(relLog, "cdda_close") = 1
          /\ relLog[Len(relLog)] = "cdda_close"
    /\ sess = "freed" => relLog = <<"paranoia_free", "cdda_close">>
    /\ sess \in {"none", "forgotten"} => Count(relLog, "paranoia_free") = 0

\* C1 witness: a session was dropped, freeing the engine session and then
\* closing the drive it owned.
SessionDropReleasedBoth ==
    /\ owner = "released"
    /\ sess = "freed"
    /\ last.op = "drop_session"
    /\ relLog = <<"paranoia_free", "cdda_close">>

\* C2 (as claimed): whenever a seek or a read is issued on a session, the
\* session's handle is Open.
SeekReadOnlyOnOpenHandle ==
    last.op \in ReadOps \cup {"seek"} => last.opened

\* C3 (as claimed): through the session's accessor only queries are issued
\* on the owned handle, no state-changing operation.
AccessorIssuesOnlyQueries ==
    last.path = "accessor" => last.op \in Queries \cup {"messages", "errors"}

\* C3 (amended): while a session owns the handle, the handle is reached only
\* through drive(), which gives every &self method of the handle (queries,
\* diagnostics, and also set_verbosity, open and set_speed) but never its
\* release: the handle is not closed while the session lives.
SessionIsSoleReleaser ==
    /\ CdromParanoia_drive => Count(relLog, "cdda_close") = 0
    /\ owner = "session" => last.path # "direct" \/ last.op = "init"
    /\ last.path = "accessor" =>
          last.op \in Queries \cup {"messages", "errors", "set_verbosity",
                                    "open", "set_speed"}

\* C3 witness: open() issued through the accessor opened the session's drive.
OpenedThroughAccessor ==
    /\ CdromParanoia_drive
    /\ last.op = "open"
    /\ last.path = "accessor"
    /\ last.res = OkUnit
    /\ ~last.opened
    /\ opened

\* C4: a status >= 0, of either width, classifies as Success whatever its
\* magnitude.
NonNegativeIsSuccess ==
    cls.done /\ cls.raw.hi >= 0 => cls.out.cond = "Success"

\* C4 witness: a c_long status whose value is a table magnitude was
\* classified as Success.
TableMagnitudeIsSuccess ==
    /\ cls.done
    /\ cls.width = "long"
    /\ cls.raw.hi = 0
    /\ cls.raw.lo \in TableMagnitudes
    /\ cls.out.cond = "Success"

\* C5 (as claimed): classification gives m and -m the named condition of the
\* table, for every magnitude m of the table.
ClassifySignIndependent ==
    \A m \in TableMagnitudes :
        cls.done /\ cls.width = "int" /\ cls.raw.lo \in {m, -m}
            => cls.out.cond = Table(m)

\* C5 (amended): the table lookup ErrorCode::from_raw gives m and -m the same
\* named condition, the one the table assigns to m; the classification
\* through Error::from_raw gives that condition for -m and Success for m.
LookupSignIndependent ==
    \A m \in TableMagnitudes :
        /\ cls.looked /\ cls.raw.lo \in {m, -m} => cls.lookup = Table(m)
        /\ cls.done /\ cls.width = "int" /\ cls.raw.lo = -m
              => cls.out = [cond |-> Table(m), raw |-> -m]
        /\ cls.done /\ cls.width = "int" /\ cls.raw.lo = m
              => cls.out.cond = "Success"

\* C5 witness: the lookup of -405 gave the condition of 405.
NegativeLookedUp ==
    /\ cls.looked
    /\ cls.raw = CLong(-405)
    /\ cls.lookup = "OptionNotSupported"

\* C6 (as claimed): a negative status whose magnitude is not in the table,
\* of either width, classifies as Unknown carrying the engine's value.
UnknownKeepsRaw ==
    (/\ cls.done
     /\ cls.raw.hi < 0
     /\ cls.raw \notin {CLong(-m) : m \in TableMagnitudes})
        => cls.out.cond = "Unknown" /\ CLong(cls.out.raw) = cls.raw

\* C7 (as claimed): every read on a session whose handle is Open, whatever
\* its retry budget, returns a frame of 1176 samples and moves the cursor on
\* by one.
EveryReadYieldsFrame ==
    last.op \in ReadOps /\ last.opened =>
        last.res = Frame /\ cursor = last.cur + 1

SeekReturnsOrFails ==
    last.op = "seek" /\ last.opened =>
        \/ last.res.kind = "Ok" /\ cursor = last.res.val
        \/ last.res.kind = "Err" /\ cursor = last.cur

\* C10 (as claimed): a query on a handle that is not Open fails with
\* DeviceNotOpen, and a failed open leaves the handle Closed.
QueryOnClosedIsDeviceNotOpen ==
    /\ last.op \in Queries /\ ~last.opened =>
          last.res.kind = "Err" /\ Error_code(last.res) = "DeviceNotOpen"
    /\ last.op = "open" /\ last.res.kind = "Err" => ~opened

====
